---- MODULE Spec2Model ----
(***************************************************************************)
(* Model of the outfit-recommendation pipeline of                          *)
(* src/imageprocessor/services.py: the batched ranking step                *)
(* (StyleRecommendationService._analyze_all_outfits_with_ai) followed by   *)
(* the thread-pool render fan-out (_process_outfits_concurrently and       *)
(* _process_single_outfit).                                                *)
(*                                                                         *)
(* Outfits are Python dictionaries, i.e. mutable objects handled by        *)
(* reference.  The model keeps them in a heap (a sequence of records, a    *)
(* reference being a position of the heap), so that copying, aliasing and  *)
(* in-place update are distinguishable.  Python list positions are         *)
(* 0-based; TLA+ sequences are 1-based, so Python position i is element    *)
(* i + 1 of the sequence that models the list.                             *)
(***************************************************************************)
EXTENDS Integers, Sequences, FiniteSets, TLC

\* ------------------------------------------------------------------ bounds
MaxCand == 2      \* candidate outfits handed to the analyzer: 1..MaxCand
MaxN == 2         \* requested result count max_outfits: 1..MaxN
MaxRank == 2      \* entries of outfit_rankings in one model response: 0..MaxRank
MaxPos == 2       \* ranking_position values the model may return: 1..MaxPos
MaxCap == 2       \* configured OUTFIT_CONCURRENT_WORKERS values: 1..MaxCap
MaxPool == 4      \* wardrobe items of the candidate generator's runs: 0..MaxPool
MaxWardrobe == 4  \* wardrobe items of the filter's runs: 0..MaxWardrobe
MaxItems == 5     \* items of the outfit handed to the flat-lay: 0..MaxItems
MaxCalls == 2     \* successive calls of _calculate_flatlay_positions: 1..MaxCalls

\* ------------------------------------------------------- program constants
DefaultMaxOutfits == 5       \* max_outfits=5 of generate_outfit_recommendations
DefaultWorkers == 5          \* getattr(settings, 'OUTFIT_CONCURRENT_WORKERS', 5)
FallbackConfidence == 60     \* 'confidence_score': 0.6, in hundredths
MinExactMatches == 3         \* if exact_matches.count() >= 3
FlatlayWidth == 400          \* canvas_width = 400
FlatlayHeight == 300         \* canvas_height = 300

\* confidence_score values (hundredths) the ranking model returns
ModelConfidences == {95}
Occasions == {"formal"}
Seasons == {"winter"}
\* str(e) of the exceptions chain.invoke can raise
ProviderErrors == {"provider_error", "timeout", "unparsable_response"}

Null == "NULL"       \* Python None
Absent == "ABSENT"   \* the key is not in the dictionary

Min(a, b) == IF a < b THEN a ELSE b
Take(s, n) == SubSeq(s, 1, Min(n, Len(s)))   \* Python s[:n] for n >= 0

VARIABLES
  pc,                 \* position of generate_outfit_recommendations
  occasion, season,   \* the request
  max_outfits,        \* the request's N
  configured,         \* settings.OUTFIT_CONCURRENT_WORKERS (>= 1), 0 when not set
  heap,               \* the outfit dictionaries
  outfits,            \* the candidate list: references into heap
  response,           \* what chain.invoke produced (a parsed result or an exception)
  batch_analysis,     \* return value of _analyze_all_outfits_with_ai
  outfit_data,        \* the (outfit, occasion, season, index) tuples of the fan-out
  max_workers,        \* pool size of the ThreadPoolExecutor
  submitted,          \* number of tasks submitted so far
  work_queue,         \* executor's FIFO work queue (task numbers)
  num_threads,        \* threads the executor has started
  task,               \* per task: stage, the outcomes of its stages, and
                      \* whether its future holds an exception (raised)
  processed_outfits,  \* the preallocated result list (0 = None)
  collected,          \* futures already yielded by as_completed
  completed_count,
  slot_writes,        \* history: who wrote each slot of processed_outfits
  dict_writers,       \* history: which tasks wrote each dictionary
  result_data,        \* what generate_outfit_recommendations returned
  wardrobe,           \* WardrobeItem.objects.all(), in queryset order
  filtered_items,     \* the filtered queryset: positions of wardrobe
  candidates,         \* the 'items' list of each generated outfit
  flat_pc,            \* position of generate_outfit_flatlay_image
  all_items,          \* its all_items list: the image source of each item
  item_positions,     \* the (x, y, size) tuples of _calculate_flatlay_positions
  canvas,             \* the regions pasted onto the canvas so far
  rng,                \* state of the process-wide random module
  layout_log,         \* history: item count and result of each positions call
  call,               \* the caller's arguments and how they were passed
  user,               \* what the user parameter is bound to
  ranking_requests,   \* history: number of chain.invoke calls of the run
  provider_calls      \* history: per task, the images handed to
                      \* generate_mannequin_image

\* the candidate generator's variables
genVars == <<wardrobe, filtered_items, candidates>>
\* the flat-lay compositor's variables
flatVars == <<flat_pc, all_items, item_positions, canvas, rng, layout_log>>

\* the call and the record of the requests made to the two providers
callVars == <<call, user, ranking_requests, provider_calls>>

vars == <<pc, occasion, season, max_outfits, configured, heap,
          outfits, response, batch_analysis, outfit_data, max_workers,
          submitted, work_queue, num_threads, task, processed_outfits,
          collected, completed_count, slot_writes, dict_writers,
          result_data, genVars, flatVars, callVars>>

\* --------------------------------------------------------- outfit records

\* _create_outfit_from_items: a fresh dictionary for candidate c (cand stands
\* for its name and item lists), carrying none of the analysis or render
\* keys.  keys is the set of entries added to the dictionary after its
\* creation.
create_outfit_from_items(c, occ, sea) ==
  [ cand |-> c,
    keys |-> {},
    style_tags |-> <<>>,
    confidence_score |-> 0,
    style_notes |-> <<>>,
    ranking_position |-> 0,
    flatlay_image_data |-> Absent,
    mannequin_image_data |-> Absent,
    mannequin_analysis |-> Absent ]

\* "analysis" stands for the seven entries of the analyzer's update():
\* style_description, color_scheme, style_tags, confidence_score,
\* style_notes, improvement_suggestions, ranking_position
AnalysisKeys == {"analysis"}
RenderKeys == {"flatlay_image_data", "mannequin_image_data", "mannequin_analysis"}

\* ------------------------------------------------- the ranking response
\* OutfitRanking (pydantic): outfit_id and ranking_position are any int; the
\* other fields are the model's annotations.
OutfitIds == (0 - (MaxCand + 1)) .. MaxCand
OutfitRanking ==
  [ outfit_id : OutfitIds,
    ranking_position : 1 .. MaxPos,
    confidence_score : ModelConfidences,
    style_tags : {<<"model_tag">>},
    style_notes : {<<"model_notes">>} ]

RECURSIVE SeqsUpTo(_, _)
SeqsUpTo(S, n) ==
  IF n = 0 THEN {<<>>}
  ELSE LET shorter == SeqsUpTo(S, n - 1)
       IN shorter \cup {Append(q, x) : q \in {r \in shorter : Len(r) = n - 1}, x \in S}

\* chain.invoke either returns a parsed BatchOutfitAnalysis or raises.
Responses ==
  [ok : {TRUE}, outfit_rankings : SeqsUpTo(OutfitRanking, MaxRank), error : {"none"}]
  \cup [ok : {FALSE}, outfit_rankings : {<<>>}, error : ProviderErrors]

\* The responses that number their entries 1, 2, ... in the order given, as
\* the prompt asks ("Rank all outfits from best to worst (1 = best)"), with
\* any outfit_id in each entry.
NumberedRankings ==
  {[k \in DOMAIN ids |->
      [outfit_id |-> ids[k], ranking_position |-> k,
       confidence_score |-> CHOOSE c \in ModelConfidences : TRUE,
       style_tags |-> <<"model_tag">>, style_notes |-> <<"model_notes">>]] :
     ids \in SeqsUpTo(OutfitIds, MaxRank)}
NumberedResponses ==
  [ok : {TRUE}, outfit_rankings : NumberedRankings, error : {"none"}]
  \cup [ok : {FALSE}, outfit_rankings : {<<>>}, error : ProviderErrors]

NoResponse == [ok |-> FALSE, outfit_rankings |-> <<>>, error |-> "not_called"]

\* ------------------------ generate_outfit_recommendations: the item pool
\* WardrobeItem.CATEGORY_CHOICES
Categories == {"top", "bottom", "shoes", "accessories", "outerwear", "dress"}

\* a wardrobe item that suits every occasion and every season
AllPurpose(cat) == [category |-> cat, occasion |-> "all", season |-> "all"]

\* the wardrobes of the candidate generator's runs: all-purpose items of any
\* category, in queryset order (Meta.ordering)
GeneratorWardrobes == SeqsUpTo({AllPurpose(cat) : cat \in Categories}, MaxPool)

\* the wardrobes of the filter's runs: dresses whose occasion and season vary
\* ("" is the blank occasion the widened filter names)
FilterItemKinds ==
  [category : {"dress"},
   occasion : {"formal", "casual", "business", "all", "", "party"},
   season : {"winter"}]
  \cup [category : {"dress"}, occasion : {"all"}, season : {"summer", "all"}]
FilterWardrobes == SeqsUpTo(FilterItemKinds, MaxWardrobe)

\* a queryset is the sequence of the positions of wardrobe it selects
Positions(w) == [i \in 1 .. Len(w) |-> i]

\* variant: the emptiness checks of lines 708 and 748 never fire
Exists_always(qs) == TRUE

\* QuerySet.exists() of the checks of lines 708 and 748
Exists(qs) == qs # <<>>

\* lines 716-719: Q(occasion=occasion) | Q(occasion='all'),
\*                Q(season=season) | Q(season='all')
ExactMatch(item, occ, sea) ==
  /\ item.occasion \in {occ, "all"}
  /\ item.season \in {sea, "all"}

\* lines 730-741: the two widened filters
CloseMatch(item, occ, sea) ==
  IF occ = "casual"
  THEN /\ item.occasion \in {"casual", "business", "all"} \/ item.occasion = ""
       /\ item.season \in {sea, "all"}
  ELSE /\ item.occasion \in {occ, "casual", "business", "all", ""}
       /\ item.season \in {sea, "all"}

exact_matches(w, occ, sea) ==
  SelectSeq(Positions(w), LAMBDA i : ExactMatch(w[i], occ, sea))

close_matches(w, occ, sea) ==
  SelectSeq(Positions(w), LAMBDA i : CloseMatch(w[i], occ, sea))

\* variant: the exact matches are used however few they are
filter_items_exact(w, occ, sea) == exact_matches(w, occ, sea)

\* lines 725-742: the exact matches when there are at least 3, else the
\* widened filter
filter_items(w, occ, sea) ==
  IF Len(exact_matches(w, occ, sea)) >= MinExactMatches
  THEN exact_matches(w, occ, sea)
  ELSE close_matches(w, occ, sea)

\* ------------------- generate_outfit_recommendations: the outfit candidates
\* filtered_items.filter(category=cat), lines 755-760
ByCategory(w, f, cat) == SelectSeq(f, LAMBDA i : w[i].category = cat)

\* [qs.first()] if qs.exists(), else []
FirstOf(qs) == IF qs # <<>> THEN <<qs[1]>> ELSE <<>>

\* variant: the outerwear is added in every season
OuterwearFor_anyseason(w, f, sea) == FirstOf(ByCategory(w, f, "outerwear"))

\* lines 778-779 and 799-800: outerwear only in fall and winter
OuterwearFor(w, f, sea) ==
  IF ByCategory(w, f, "outerwear") # <<>> /\ sea \in {"fall", "winter"}
  THEN <<ByCategory(w, f, "outerwear")[1]>>
  ELSE <<>>

\* variant: the first top is added as well
AddOns_withtop(w, f, sea) ==
  FirstOf(ByCategory(w, f, "top")) \o FirstOf(ByCategory(w, f, "shoes"))
  \o FirstOf(ByCategory(w, f, "accessories")) \o OuterwearFor(w, f, sea)

\* lines 769-779 and 790-800: what is appended to a dress or a top+bottom
AddOns(w, f, sea) ==
  FirstOf(ByCategory(w, f, "shoes")) \o FirstOf(ByCategory(w, f, "accessories"))
  \o OuterwearFor(w, f, sea)

\* lines 766-783: one outfit per dress
DressOutfits(w, f, sea) ==
  LET dresses == ByCategory(w, f, "dress")
  IN [k \in DOMAIN dresses |-> <<dresses[k]>> \o AddOns(w, f, sea)]

\* variant: top k is paired with bottom k only
TopBottomOutfits_zip(w, f, sea) ==
  LET tops == ByCategory(w, f, "top")
      bottoms == ByCategory(w, f, "bottom")
  IN [k \in 1 .. Min(Len(tops), Len(bottoms)) |->
        <<tops[k], bottoms[k]>> \o AddOns(w, f, sea)]

\* lines 786-805: one outfit per (top, bottom), tops in the outer loop
TopBottomOutfits(w, f, sea) ==
  LET tops == ByCategory(w, f, "top")
      bottoms == ByCategory(w, f, "bottom")
  IN [k \in 1 .. Len(tops) * Len(bottoms) |->
        <<tops[((k - 1) \div Len(bottoms)) + 1],
          bottoms[((k - 1) % Len(bottoms)) + 1]>>
        \o AddOns(w, f, sea)]

\* lines 810-824: one outfit per pool item
SingleItemOutfits(w, f) ==
  [k \in DOMAIN f |->
     <<f[k]>>
     \o (IF ByCategory(w, f, "shoes") # <<>> /\ w[f[k]].category # "shoes"
         THEN <<ByCategory(w, f, "shoes")[1]>> ELSE <<>>)
     \o (IF ByCategory(w, f, "accessories") # <<>> /\ w[f[k]].category # "accessories"
         THEN <<ByCategory(w, f, "accessories")[1]>> ELSE <<>>)]

\* variant: the single-item outfits are generated in every run
GenerateOutfits_always(w, f, sea) ==
  DressOutfits(w, f, sea) \o TopBottomOutfits(w, f, sea) \o SingleItemOutfits(w, f)

\* lines 762-824: the 'items' lists of the outfits list, in order
GenerateOutfits(w, f, sea) ==
  LET combined == DressOutfits(w, f, sea) \o TopBottomOutfits(w, f, sea)
  IN IF combined = <<>> THEN SingleItemOutfits(w, f) ELSE combined

\* the two early returns and the except branch of
\* generate_outfit_recommendations
NoWardrobeItems == "No wardrobe items available for recommendations"
NoSuitableItems == "No items suitable for occasion and season"
Failure(msg) ==
  [success |-> FALSE, error |-> msg, outfits |-> <<>>,
   total_combinations |-> 0, total_analyzed |-> 0,
   keys |-> {"success", "error"}]

\* lines 834-842: result_data
Success(outs, combos, analyzed) ==
  [success |-> TRUE, error |-> "none", outfits |-> outs,
   total_combinations |-> combos, total_analyzed |-> analyzed,
   keys |-> {"success", "outfits", "total_combinations", "total_analyzed",
             "overall_analysis"}]

\* generate_outfit_recommendations has not returned
NoResult == Failure("not_returned")

\* ------------------------------------------- _analyze_all_outfits_with_ai
\* Python list indexing outfits[idx] on a list of length n: the 0-based
\* position read, or -1 for IndexError.  Negative idx counts from the end.
PyIndex(n, idx) ==
  IF idx >= 0 THEN (IF idx < n THEN idx ELSE 0 - 1)
  ELSE IF idx >= 0 - n THEN n + idx ELSE 0 - 1

\* variant: the dictionary itself instead of a copy of it
CopyOutfit_alias(h, ref) == [heap |-> h, ref |-> ref]

\* outfits[outfit_idx].copy(): a new dictionary with the same entries.
CopyOutfit(h, ref) == [heap |-> Append(h, h[ref]), ref |-> Len(h) + 1]

\* outfit.update({... ranking ...}) on the success path
UpdateFromRanking(d, ranking) ==
  [d EXCEPT !.keys = @ \cup AnalysisKeys,
            !.style_tags = ranking.style_tags,
            !.confidence_score = ranking.confidence_score,
            !.style_notes = ranking.style_notes,
            !.ranking_position = ranking.ranking_position]

\* The loop over analysis_result.outfit_rankings.  raised is TRUE when
\* outfits[outfit_idx] raised IndexError, which leaves the try block.
RECURSIVE ConvertRankings(_, _, _, _)
ConvertRankings(h, outs, analyzed, rankings) ==
  IF rankings = <<>> THEN [raised |-> FALSE, heap |-> h, analyzed |-> analyzed]
  ELSE LET ranking == Head(rankings)
           outfit_idx == ranking.outfit_id
       IN IF outfit_idx < Len(outs)
          THEN IF PyIndex(Len(outs), outfit_idx) < 0
               THEN [raised |-> TRUE, heap |-> h, analyzed |-> analyzed]
               ELSE LET c == CopyOutfit(h, outs[PyIndex(Len(outs), outfit_idx) + 1])
                        h2 == [c.heap EXCEPT ![c.ref] = UpdateFromRanking(@, ranking)]
                    IN ConvertRankings(h2, outs, Append(analyzed, c.ref), Tail(rankings))
          ELSE ConvertRankings(h, outs, analyzed, Tail(rankings))

\* list.sort(key=ranking_position): a stable insertion sort of references.
RECURSIVE InsertByPosition(_, _, _)
InsertByPosition(h, sorted, ref) ==
  IF sorted = <<>> THEN <<ref>>
  ELSE IF h[ref].ranking_position < h[Head(sorted)].ranking_position
       THEN <<ref>> \o sorted
       ELSE <<Head(sorted)>> \o InsertByPosition(h, Tail(sorted), ref)

\* variant: the list is left in response order
SortByRankingPosition_unsorted(h, refs) == refs

RECURSIVE SortByRankingPosition(_, _)
SortByRankingPosition(h, refs) ==
  IF refs = <<>> THEN <<>>
  ELSE InsertByPosition(h,
         SortByRankingPosition(h, SubSeq(refs, 1, Len(refs) - 1)),
         refs[Len(refs)])

\* When the function returns, the copies that were cut off by the slice are
\* referenced by nothing: the heap keeps the candidates and the returned
\* dictionaries, in the order of the returned list.
Reachable(h, outs, top) ==
  LET extra == SelectSeq(top, LAMBDA r : r > Len(outs))
      pos(r) == CHOOSE i \in DOMAIN extra : extra[i] = r
  IN [ heap |-> [i \in 1 .. Len(outs) + Len(extra) |->
                  IF i <= Len(outs) THEN h[i] ELSE h[extra[i - Len(outs)]]],
       outfits |-> [i \in DOMAIN top |->
                     IF top[i] <= Len(outs) THEN top[i] ELSE Len(outs) + pos(top[i])] ]

\* analyzed_outfits[:max_outfits]
TopOutfits(analyzed, n) == Take(analyzed, n)

\* variant: the except branch keeps every candidate
FallbackSlice_all(outs, n) == outs

\* outfits[:max_outfits] of the except branch
FallbackSlice(outs, n) == Take(outs, n)

\* outfit.update({... fallback ...}) in the except branch, with i the 0-based
\* position of the enumerate.
UpdateFallback(d, occ, sea, err, i) ==
  [d EXCEPT !.keys = @ \cup AnalysisKeys,
            !.style_tags = <<occ, sea>>,
            !.confidence_score = FallbackConfidence,
            !.style_notes = <<"Error during analysis", err>>,
            !.ranking_position = i + 1]

\* variant: no except branch, the exception leaves the analyzer
FallbackAnalysis_propagate(h, outs, occ, sea, n, err) ==
  [ heap |-> h, outfits |-> <<>>, overall_analysis |-> <<err>>,
    total_analyzed |-> 0, path |-> "raised" ]

\* The except branch: the first max_outfits candidates, updated in place.
FallbackAnalysis(h, outs, occ, sea, n, err) ==
  LET chosen == FallbackSlice(outs, n)
  IN [ heap |-> [r \in DOMAIN h |->
                   IF \E i \in DOMAIN chosen : chosen[i] = r
                   THEN UpdateFallback(h[r], occ, sea, err,
                          (CHOOSE i \in DOMAIN chosen : chosen[i] = r) - 1)
                   ELSE h[r]],
       outfits |-> chosen,
       overall_analysis |-> <<"Analysis failed", err>>,
       total_analyzed |-> Len(outs),
       path |-> "fallback" ]

\* The whole function for one outcome resp of chain.invoke.
analyze_all_outfits_with_ai(h, outs, occ, sea, n, resp) ==
  IF ~resp.ok THEN FallbackAnalysis(h, outs, occ, sea, n, resp.error)
  ELSE LET conv == ConvertRankings(h, outs, <<>>, resp.outfit_rankings)
       IN IF conv.raised
          THEN FallbackAnalysis(h, outs, occ, sea, n, "IndexError")
          ELSE LET top == TopOutfits(SortByRankingPosition(conv.heap, conv.analyzed), n)
               IN
               [ heap |-> Reachable(conv.heap, outs, top).heap,
                 outfits |-> Reachable(conv.heap, outs, top).outfits,
                 overall_analysis |-> <<"model_overall_analysis">>,
                 total_analyzed |-> Len(outs),
                 path |-> "ranked" ]

\* variant: one request per candidate
RankingRequests_percandidate(outs) == Len(outs)

\* lines 1137-1144: chain.invoke is called once, outside any loop over the
\* outfits, and nothing calls it again when it raises
RankingRequests(outs) == 1

\* ------------------------------------------- _calculate_flatlay_positions
Max(a, b) == IF a > b THEN a ELSE b

\* variant: the longer side of the canvas
ShorterSide_longer(w, h) == Max(w, h)

\* min(canvas_width, canvas_height)
ShorterSide(w, h) == Min(w, h)

\* int(v) for v = twice / 2: Python's int() truncates toward zero
IntOfHalves(twice) ==
  IF twice >= 0 THEN twice \div 2 ELSE 0 - ((0 - twice) \div 2)

\* lines 1676-1687: item i (0-based) of a cluster of item_count items;
\* radius * 0.5 * k is computed in halves
ClusterPosition(i, item_count, w, h, size) ==
  LET center_x == w \div 2
      center_y == h \div 2
      radius == size \div 2
      sign == IF i < item_count \div 2 THEN 1 ELSE 0 - 1
      x == IntOfHalves(2 * center_x + radius * ((i % 2) + 1) * sign)
      y == IntOfHalves(2 * center_y + radius * ((i + 1) % 2) * sign)
  IN << Max(size, Min(w - size, x)), Max(size, Min(h - size, y)), size >>

\* the list of (x, y, size) tuples for item_count items
calculate_flatlay_positions(item_count, w, h) ==
  LET center_x == w \div 2
      center_y == h \div 2
  IN
  IF item_count = 1
  THEN LET size == (ShorterSide(w, h) * 9) \div 10
       IN << <<(w - size) \div 2, (h - size) \div 2, size>> >>
  ELSE IF item_count = 2
  THEN LET size == (ShorterSide(w, h) * 3) \div 7
           y == (h - size) \div 2
       IN << <<center_x - size - 10, y, size>>, <<center_x + 10, y, size>> >>
  ELSE IF item_count = 3
  THEN LET size == (ShorterSide(w, h) * 2) \div 5
       IN << <<center_x - (size \div 2), center_y - size - 5, size>>,
             <<center_x - size - 5, center_y + 5, size>>,
             <<center_x + 5, center_y + 5, size>> >>
  ELSE IF item_count = 4
  THEN LET size == (ShorterSide(w, h) * 2) \div 7
           offset == (size \div 2) + 5
       IN << <<center_x - offset, center_y - offset, size>>,
             <<center_x + offset, center_y - offset, size>>,
             <<center_x - offset, center_y + offset, size>>,
             <<center_x + offset, center_y + offset, size>> >>
  ELSE LET size == (ShorterSide(w, h) * 2) \div 9
       IN [k \in 1 .. item_count |-> ClusterPosition(k - 1, item_count, w, h, size)]

\* variant: an item without an image gets a tile of half the size
flatlay_positions_byimage(items, w, h) ==
  LET base == calculate_flatlay_positions(Len(items), w, h)
  IN [k \in DOMAIN base |->
        IF items[k] = "none"
        THEN <<base[k][1], base[k][2], base[k][3] \div 2>>
        ELSE base[k]]

\* _calculate_flatlay_positions(items, canvas_width, canvas_height): of
\* items only len(items) is read (line 1614)
flatlay_positions(items, w, h) == calculate_flatlay_positions(Len(items), w, h)

\* lines 1673-1674: the cluster branch (any count other than 1..4) reseeds
\* the random module; no random number is drawn
RngAfterPositions(item_count, state) ==
  IF item_count \in 1 .. 4 THEN state ELSE "seed42"

\* the random module as other code may have left it
RngStates == {"unseeded", "advanced"}

\* ------------------------------------------ generate_outfit_flatlay_image
\* where the image of an item comes from (lines 1443-1472): its processed
\* image, its original image, none (a placeholder tile is drawn), or a file
\* that cannot be opened (the except branch draws the placeholder)
ImageSources == {"processed", "original", "none", "unreadable"}

\* the outfits handed to generate_outfit_flatlay_image: the items of the
\* category lists in the order of lines 1402-1413
FlatlayOutfits == SeqsUpTo(ImageSources, MaxItems)

\* lines 1445-1478: the tile pasted for one item at its position
Tile(source, position) ==
  [x |-> position[1], y |-> position[2], size |-> position[3],
   image |-> IF source \in {"processed", "original"} THEN source ELSE "placeholder"]

\* ------------------------------------------------ _process_single_outfit
FlatlayData == "flatlay_b64"        \* base64 of flatlay_result['image_data']
MannequinData == "mannequin_b64"    \* base64 of mannequin_result['mannequin_image_data']
MannequinAnalysis == "mannequin_analysis_text"

\* (service, flat-lay, mannequin) outcomes of one run of _process_single_outfit.
\* NanobananaMannequinService() raises ValueError ("init_error") when the
\* library or GEMINI_API_KEY is missing; generate_outfit_flatlay_image
\* reports its failures as success False; generate_mannequin_image returns a
\* success result, a success-False result, or raises.  "not_called" where
\* the code does not reach the call.
RenderOutcomes ==
  { <<"init_error", "not_called", "not_called">>,
    <<"ready", "fail", "not_called">>,
    <<"ready", "ok", "ok">>,
    <<"ready", "ok", "fail">>,
    <<"ready", "ok", "raise">> }

SetKey(d, k) == [d EXCEPT !.keys = @ \cup {k}]

\* flatlay_result['image_data'] of the flat-lay built for the dictionary ref
FlatlayImage(ref) == <<"flatlay_png", ref>>

\* variant: the provider is called whatever the flat-lay's outcome
MannequinCalls_always(image, service, flat) ==
  IF service = "ready" THEN <<image>> ELSE <<>>

\* lines 935-940: the images handed to generate_mannequin_image by one run
\* of _process_single_outfit, none unless the flat-lay succeeded
MannequinCalls(image, service, flat) ==
  IF service = "ready" /\ flat = "ok" THEN <<image>> ELSE <<>>

\* variant: the else branch of lines 931-933 is missing
OnFlatlay_noelse(d, outcome) ==
  IF outcome = "ok"
  THEN [SetKey(d, "flatlay_image_data") EXCEPT !.flatlay_image_data = FlatlayData]
  ELSE d

\* lines 926-933: the flat-lay entry written from flatlay_result
OnFlatlay(d, outcome) ==
  [SetKey(d, "flatlay_image_data") EXCEPT
     !.flatlay_image_data = IF outcome = "ok" THEN FlatlayData ELSE Null]

\* variant: the analysis entry is written whether or not the call succeeded
OnMannequinResult_analysis(d, outcome) ==
  [SetKey(SetKey(d, "mannequin_image_data"), "mannequin_analysis") EXCEPT
     !.mannequin_image_data = IF outcome = "ok" THEN MannequinData ELSE Null,
     !.mannequin_analysis = MannequinAnalysis]

\* lines 942-950: the mannequin entries written from mannequin_result
OnMannequinResult(d, outcome) ==
  [SetKey(SetKey(d, "mannequin_image_data"), "mannequin_analysis") EXCEPT
     !.mannequin_image_data = IF outcome = "ok" THEN MannequinData ELSE Null,
     !.mannequin_analysis = IF outcome = "ok" THEN MannequinAnalysis ELSE Null]

\* variant: no inner try, the exception reaches the outer except
OnMannequinRaise_outer(d) ==
  [SetKey(SetKey(SetKey(d, "flatlay_image_data"), "mannequin_image_data"),
          "mannequin_analysis") EXCEPT
     !.flatlay_image_data = Null,
     !.mannequin_image_data = Null,
     !.mannequin_analysis = Null]

\* lines 952-955: generate_mannequin_image raised, caught by the inner except
OnMannequinRaise(d) ==
  [SetKey(SetKey(d, "mannequin_image_data"), "mannequin_analysis") EXCEPT
     !.mannequin_image_data = Null,
     !.mannequin_analysis = Null]

\* lines 956-958: the flat-lay had failed, the provider is not called
OnNoFlatlay(d) ==
  [SetKey(SetKey(d, "mannequin_image_data"), "mannequin_analysis") EXCEPT
     !.mannequin_image_data = Null,
     !.mannequin_analysis = Null]

\* variant: the outer except writes nothing
OnProcessingError_bare(d) == d

\* lines 962-968: the outer except of _process_single_outfit
OnProcessingError(d) ==
  [SetKey(SetKey(SetKey(d, "flatlay_image_data"), "mannequin_image_data"),
          "mannequin_analysis") EXCEPT
     !.flatlay_image_data = Null,
     !.mannequin_image_data = Null,
     !.mannequin_analysis = Null]

\* raised stays FALSE: _process_single_outfit catches every exception and
\* returns, so future.result() never raises
NewTask == [stage |-> "unsubmitted", flat |-> "none", man |-> "none", raised |-> FALSE]

\* ------------------------------------------- _process_outfits_concurrently
\* getattr(settings, 'OUTFIT_CONCURRENT_WORKERS', 5)
MaxConcurrent(conf) == IF conf = 0 THEN DefaultWorkers ELSE conf

\* variant: a pool without threads
MaxWorkers_none(n, conf) == 0

\* variant: one worker per outfit, the cap ignored
MaxWorkers_uncapped(n, conf) == n

\* max_workers = min(len(outfits), max_concurrent)
MaxWorkers(n, conf) == Min(n, MaxConcurrent(conf))

\* variant: results appended in completion order
SlotOf_completion(index, count) == count + 1

\* processed_outfits[index] = outfit: the slot (1-based) the coordinator
\* writes for a future that returned (outfit, index)
SlotOf(index, count) == index + 1

Tasks == DOMAIN outfit_data
Running == {p \in Tasks : task[p].stage = "started"}
NumRunning == Cardinality(Running)
TaskOutfit(p) == outfit_data[p].outfit

\* nothing of the render fan-out has happened
RenderIdle ==
  /\ response = NoResponse
  /\ batch_analysis = [heap |-> <<>>, outfits |-> <<>>, overall_analysis |-> <<>>,
                       total_analyzed |-> 0, path |-> "none"]
  /\ outfit_data = <<>>
  /\ max_workers = 0
  /\ submitted = 0
  /\ work_queue = <<>>
  /\ num_threads = 0
  /\ task = <<>>
  /\ processed_outfits = <<>>
  /\ collected = {}
  /\ completed_count = 0
  /\ slot_writes = <<>>
  /\ dict_writers = <<>>
  /\ result_data = NoResult
  /\ ranking_requests = 0
  /\ provider_calls = <<>>

\* generate_outfit_flatlay_image is not running
FlatIdle ==
  /\ flat_pc = "idle"
  /\ all_items = <<>>
  /\ item_positions = <<>>
  /\ canvas = <<>>
  /\ rng = "unseeded"
  /\ layout_log = <<>>

\* user=None, the default
NoUser == Null
\* Django's FieldError for a lookup on a field the model does not have
FieldError == "Cannot resolve keyword 'user' into field"

\* the parameters (user, occasion, season, max_outfits) of line 700, each
\* bound to the caller's argument of that name
KeywordBinding ==
  [user |-> "default", occasion |-> "occasion", season |-> "season",
   max_outfits |-> "max_outfits"]

\* the same three arguments passed positionally, as line 855 does: they
\* fill the parameters in the order of line 700, user first
PositionalBinding ==
  [user |-> "occasion", occasion |-> "season", season |-> "max_outfits",
   max_outfits |-> "default"]

BindArguments(style) ==
  IF style = "positional" THEN PositionalBinding ELSE KeywordBinding

\* the defaults of line 700
DefaultOf(param) ==
  IF param = "user" THEN NoUser
  ELSE IF param = "occasion" THEN "casual"
  ELSE IF param = "season" THEN "all"
  ELSE DefaultMaxOutfits

\* the value the parameter holds when the body starts
ParameterValue(c, param) ==
  LET arg == BindArguments(c.style)[param]
  IN IF arg = "occasion" THEN c.occasion
     ELSE IF arg = "season" THEN c.season
     ELSE IF arg = "max_outfits" THEN c.max_outfits
     ELSE DefaultOf(param)

\* the call was made with occasion, season and max_outfits by keyword and no
\* user, and the parameters hold those arguments
KeywordCall ==
  /\ call = [style |-> "keyword", occasion |-> occasion, season |-> season,
             max_outfits |-> max_outfits]
  /\ user = NoUser

\* the outfits list of lines 762-824 as dictionaries
OutfitDicts(cands, occ, sea) ==
  [c \in DOMAIN cands |-> create_outfit_from_items(c, occ, sea)]

\* generate_outfit_recommendations at line 827, its candidates generated
\* from a wardrobe of 1..MaxCand all-purpose dresses
Init ==
  /\ pc = "analyze"
  /\ occasion \in Occasions
  /\ season \in Seasons
  /\ max_outfits \in 1 .. MaxN
  /\ configured \in 0 .. MaxCap        \* 0: the setting is absent
  /\ \E n \in 1 .. MaxCand :
        /\ wardrobe = [c \in 1 .. n |-> AllPurpose("dress")]
        /\ filtered_items = filter_items(wardrobe, occasion, season)
        /\ candidates = GenerateOutfits(wardrobe, filtered_items, season)
        /\ heap = OutfitDicts(candidates, occasion, season)
        /\ outfits = [c \in 1 .. n |-> c]
  /\ RenderIdle
  /\ KeywordCall
  /\ FlatIdle

\* a call of generate_outfit_recommendations(None, occasion, season,
\* max_outfits) about to start, for the given wardrobes and requests
InitRecommend(wardrobes, occasions, seasons) ==
  /\ pc = "start"
  /\ occasion \in occasions
  /\ season \in seasons
  /\ max_outfits = 1
  /\ configured = 0
  /\ wardrobe \in wardrobes
  /\ filtered_items = <<>>
  /\ candidates = <<>>
  /\ heap = <<>>
  /\ outfits = <<>>
  /\ RenderIdle
  /\ KeywordCall
  /\ FlatIdle

\* a call of generate_outfit_flatlay_image(outfit) about to start
InitFlatlay ==
  /\ pc = "none"
  /\ occasion \in Occasions
  /\ season \in Seasons
  /\ max_outfits = 1
  /\ configured = 0
  /\ wardrobe = <<>>
  /\ filtered_items = <<>>
  /\ candidates = <<>>
  /\ heap = <<>>
  /\ outfits = <<>>
  /\ RenderIdle
  /\ KeywordCall
  /\ flat_pc = "start"
  /\ all_items \in FlatlayOutfits
  /\ item_positions = <<>>
  /\ canvas = <<>>
  /\ rng = "unseeded"
  /\ layout_log = <<>>

\* lines 702-752: the wardrobe query, the occasion/season filter and the two
\* early returns
FilterItems ==
  /\ pc = "start"
  /\ IF user # NoUser
     THEN \* lines 705-706: WardrobeItem has no user field, filter(user=...)
          \* raises FieldError, caught by the except of lines 844-849
          /\ pc' = "returned"
          /\ result_data' = Failure(FieldError)
          /\ UNCHANGED filtered_items
     ELSE IF ~Exists(Positions(wardrobe))
     THEN /\ pc' = "returned"
          /\ result_data' = Failure(NoWardrobeItems)
          /\ UNCHANGED filtered_items
     ELSE /\ filtered_items' = filter_items(wardrobe, occasion, season)
          /\ IF ~Exists(filtered_items')
             THEN /\ pc' = "returned"
                  /\ result_data' = Failure(NoSuitableItems)
             ELSE /\ pc' = "generate"
                  /\ UNCHANGED result_data
  /\ UNCHANGED <<occasion, season, max_outfits, configured, heap, outfits,
                 response, batch_analysis, outfit_data, max_workers,
                 submitted, work_queue, num_threads, task, processed_outfits,
                 collected, completed_count, slot_writes, dict_writers,
                 wardrobe, candidates, flatVars,
                 callVars>>

\* lines 754-824: the category buckets and the outfits list
GenerateCandidates ==
  /\ pc = "generate"
  /\ candidates' = GenerateOutfits(wardrobe, filtered_items, season)
  /\ heap' = OutfitDicts(candidates', occasion, season)
  /\ outfits' = [c \in DOMAIN candidates' |-> c]
  /\ pc' = "analyze"
  /\ UNCHANGED <<occasion, season, max_outfits, configured,
                 response, batch_analysis, outfit_data, max_workers,
                 submitted, work_queue, num_threads, task, processed_outfits,
                 collected, completed_count, slot_writes, dict_writers,
                 result_data, wardrobe, filtered_items, flatVars,
                 callVars>>

\* generate_outfit_recommendations, line 828: the one batched ranking call,
\* chain.invoke answering with one of resps; an exception leaving the
\* analyzer is caught by the except of lines 844-849
Analyze(resps) ==
  /\ pc = "analyze"
  /\ \E resp \in resps :
       LET r == analyze_all_outfits_with_ai(heap, outfits, occasion, season,
                                            max_outfits, resp)
       IN /\ response' = resp
          /\ heap' = r.heap
          /\ batch_analysis' = [r EXCEPT !.heap = <<>>]
          /\ ranking_requests' = ranking_requests + RankingRequests(outfits)
          /\ IF r.path = "raised"
             THEN /\ pc' = "returned"
                  /\ result_data' = Failure(r.overall_analysis[1])
             ELSE /\ pc' = "render"
                  /\ UNCHANGED result_data
  /\ UNCHANGED <<occasion, season, max_outfits, configured, outfits,
                 outfit_data, max_workers, submitted, work_queue, num_threads,
                 task, processed_outfits, collected, completed_count,
                 slot_writes, dict_writers, genVars, flatVars, call, user,
                 provider_calls>>

\* _process_outfits_concurrently, lines 972-988: the early return on an
\* empty list (and then result_data, lines 834-842), else the task tuples,
\* the pool size and the result list
BeginRender ==
  /\ pc = "render"
  /\ LET ai_outfits == batch_analysis.outfits
         n == Len(ai_outfits)
     IN IF n = 0
        THEN /\ pc' = "returned"
             /\ result_data' = Success(<<>>, Len(outfits), batch_analysis.total_analyzed)
             /\ UNCHANGED <<outfit_data, max_workers, task, slot_writes, dict_writers,
                            provider_calls>>
        ELSE /\ pc' = "submit"
             /\ UNCHANGED result_data
             /\ outfit_data' = [i \in 1 .. n |-> [outfit |-> ai_outfits[i], index |-> i - 1]]
             /\ max_workers' = MaxWorkers(n, configured)
             /\ task' = [i \in 1 .. n |-> NewTask]
             /\ slot_writes' = [i \in 1 .. n |-> <<>>]
             /\ dict_writers' = [r \in DOMAIN heap |-> {}]
             /\ provider_calls' = [i \in 1 .. n |-> <<>>]
  /\ processed_outfits' = [i \in 1 .. Len(batch_analysis.outfits) |-> 0]
  /\ response' = NoResponse      \* analysis_result was a local of the analyzer
  /\ UNCHANGED <<occasion, season, max_outfits, configured, heap,
                 outfits, batch_analysis, submitted, work_queue,
                 num_threads, collected, completed_count, genVars, flatVars,
                 call, user, ranking_requests>>

\* executor.submit of the next tuple (lines 992-995): the work item is
\* queued and the executor starts a thread while it has fewer than
\* max_workers; it may reuse an idle thread once some task has finished.
Submit ==
  /\ pc = "submit"
  /\ LET p == submitted + 1
     IN /\ task' = [task EXCEPT ![p].stage = "queued"]
        /\ work_queue' = Append(work_queue, p)
        /\ submitted' = p
        /\ \/ /\ num_threads < max_workers
              /\ num_threads' = num_threads + 1
           \/ /\ \/ num_threads >= max_workers
                 \/ \E q \in Tasks : task[q].stage = "finished"
              /\ num_threads' = num_threads
        /\ pc' = IF p = Len(outfit_data) THEN "collect" ELSE "submit"
  /\ UNCHANGED <<occasion, season, max_outfits, configured, heap,
                 outfits, response, batch_analysis, outfit_data, max_workers,
                 processed_outfits, collected, completed_count, slot_writes,
                 dict_writers, result_data, genVars, flatVars,
                 callVars>>

\* a free pool thread takes the oldest queued work item and enters
\* _process_single_outfit (lines 913-917)
TaskStart(p) ==
  /\ work_queue # <<>>
  /\ Head(work_queue) = p
  /\ NumRunning < num_threads
  /\ work_queue' = Tail(work_queue)
  /\ task' = [task EXCEPT ![p].stage = "started"]
  /\ UNCHANGED <<pc, occasion, season, max_outfits, configured, heap,
                 outfits, response, batch_analysis, outfit_data, max_workers,
                 submitted, num_threads, processed_outfits, collected,
                 completed_count, slot_writes, dict_writers, result_data,
                 genVars, flatVars, callVars>>

WriteDict(p, d) ==
  /\ heap' = [heap EXCEPT ![TaskOutfit(p)] = d]
  /\ dict_writers' = [dict_writers EXCEPT ![TaskOutfit(p)] = @ \cup {p}]

\* What _process_single_outfit leaves in the dictionary d, for the outcome
\* of each call it makes.  Lines 919-921: NanobananaMannequinService()
\* raising sends control to the outer except.  Lines 923-933: the flat-lay.
\* Lines 935-958: the mannequin call, made only after a successful flat-lay.
process_single_outfit(d, service, flat, man) ==
  IF service = "init_error" THEN OnProcessingError(d)
  ELSE IF flat # "ok" THEN OnNoFlatlay(OnFlatlay(d, flat))
  ELSE IF man = "raise" THEN OnMannequinRaise(OnFlatlay(d, flat))
  ELSE OnMannequinResult(OnFlatlay(d, flat), man)

\* the body of _process_single_outfit run by the pool thread that took the
\* task; it writes only the task's own dictionary and returns (outfit, index)
ProcessSingleOutfit(p) ==
  /\ p \in Tasks
  /\ task[p].stage = "started"
  /\ \E o \in RenderOutcomes :
       /\ WriteDict(p, process_single_outfit(heap[TaskOutfit(p)], o[1], o[2], o[3]))
       /\ task' = [task EXCEPT
            ![p].stage = "finished",
            ![p].flat = IF o[1] = "init_error" THEN "init_error" ELSE o[2],
            ![p].man = o[3]]
       /\ provider_calls' = [provider_calls EXCEPT
            ![p] = @ \o MannequinCalls(FlatlayImage(TaskOutfit(p)), o[1], o[2])]
  /\ UNCHANGED <<pc, occasion, season, max_outfits, configured,
                 outfits, response, batch_analysis, outfit_data, max_workers,
                 submitted, work_queue, num_threads, processed_outfits, collected,
                 completed_count, slot_writes, result_data, genVars, flatVars,
                 call, user, ranking_requests>>

\* one iteration of the as_completed loop (lines 998-1013) for a finished
\* future, with the except branch of lines 1005-1013 for a future that holds
\* an exception; after the last one the with block ends, the list is
\* returned and generate_outfit_recommendations returns result_data (lines
\* 834-842)
Collect(p) ==
  /\ pc = "collect"
  /\ p \in Tasks \ collected
  /\ task[p].stage = "finished"
  /\ LET index == outfit_data[p].index
         slot == IF task[p].raised THEN index + 1 ELSE SlotOf(index, completed_count)
     IN /\ processed_outfits' = [processed_outfits EXCEPT ![slot] = TaskOutfit(p)]
        /\ slot_writes' = [slot_writes EXCEPT ![slot] = Append(@, "coordinator")]
        /\ IF task[p].raised
           THEN heap' = [heap EXCEPT ![TaskOutfit(p)] = OnProcessingError(@)]
           ELSE heap' = heap
  /\ collected' = collected \cup {p}
  /\ completed_count' = completed_count + 1
  /\ pc' = IF collected' = Tasks THEN "returned" ELSE "collect"
  /\ result_data' = IF collected' = Tasks
                    THEN Success(processed_outfits', Len(outfits),
                                 batch_analysis.total_analyzed)
                    ELSE result_data
  /\ UNCHANGED <<occasion, season, max_outfits, configured,
                 outfits, response, batch_analysis, outfit_data, max_workers,
                 submitted, work_queue, num_threads, task, dict_writers,
                 genVars, flatVars, callVars>>

Next ==
  \/ Analyze(NumberedResponses)
  \/ BeginRender
  \/ Submit
  \/ \E p \in DOMAIN task : TaskStart(p)
  \/ \E p \in DOMAIN task : ProcessSingleOutfit(p)
  \/ \E p \in DOMAIN task : Collect(p)

\* the recommendation run: ranking, then the render fan-out
Spec == Init /\ [][Next]_vars

\* the analyzer alone, over every response of the bounded response space
NextAnalyzer == Analyze(Responses)
SpecAnalyzer == Init /\ [][NextAnalyzer]_vars

\* the recommendation run when the ranking model answers as asked: each
\* entry names a candidate, no candidate twice, positions 1, 2, ...
WellFormedResponses ==
  {r \in NumberedResponses :
     /\ r.ok
     /\ \A k \in DOMAIN r.outfit_rankings :
          /\ r.outfit_rankings[k].outfit_id >= 0
          /\ r.outfit_rankings[k].outfit_id < Len(outfits)
          /\ \A m \in DOMAIN r.outfit_rankings :
               m # k => r.outfit_rankings[m].outfit_id # r.outfit_rankings[k].outfit_id}
NextWellFormed ==
  \/ Analyze(WellFormedResponses)
  \/ BeginRender
  \/ Submit
  \/ \E p \in DOMAIN task : TaskStart(p)
  \/ \E p \in DOMAIN task : ProcessSingleOutfit(p)
  \/ \E p \in DOMAIN task : Collect(p)
SpecWellFormed == Init /\ [][NextWellFormed]_vars

\* the task numbers a run can have
TaskIds == 1 .. (MaxCand + MaxRank)

\* The same run under the scheduling the code relies on: the calling thread
\* keeps running (the ranking call returns, the coordinator submits and
\* collects), an idle pool thread takes queued work, and every provider
\* call made by a task returns or raises, so a started task finishes.
Fairness ==
  /\ WF_vars(Analyze(WellFormedResponses))
  /\ WF_vars(BeginRender)
  /\ WF_vars(Submit)
  /\ \A p \in TaskIds : WF_vars(TaskStart(p))
  /\ \A p \in TaskIds : WF_vars(ProcessSingleOutfit(p))
  /\ \A p \in TaskIds : WF_vars(Collect(p))
SpecLive == Init /\ [][NextWellFormed]_vars /\ Fairness

\* the pipeline's own variables
pipeVars == <<pc, occasion, season, max_outfits, configured, heap,
              outfits, response, batch_analysis, outfit_data, max_workers,
              submitted, work_queue, num_threads, task, processed_outfits,
              collected, completed_count, slot_writes, dict_writers,
              result_data, callVars>>

\* generate_outfit_flatlay_image, lines 1393-1431: no item, or the canvas
\* and the positions of the items
FlatlayBegin ==
  /\ flat_pc = "start"
  /\ IF all_items = <<>>
     THEN /\ flat_pc' = "failed"           \* 'No items found in outfit'
          /\ UNCHANGED <<item_positions, rng, layout_log>>
     ELSE /\ flat_pc' = "paste"
          /\ item_positions' = flatlay_positions(all_items, FlatlayWidth, FlatlayHeight)
          /\ rng' = RngAfterPositions(Len(all_items), rng)
          /\ layout_log' = Append(layout_log,
               [count |-> Len(all_items), positions |-> item_positions'])
  /\ UNCHANGED <<pipeVars, genVars, all_items, canvas>>

\* one iteration of the loop of lines 1440-1478 over
\* zip(all_items, item_positions)
PasteItem ==
  /\ flat_pc = "paste"
  /\ Len(canvas) < Min(Len(all_items), Len(item_positions))
  /\ LET i == Len(canvas) + 1
     IN canvas' = Append(canvas, Tile(all_items[i], item_positions[i]))
  /\ UNCHANGED <<pipeVars, genVars, flat_pc, all_items, item_positions, rng,
                 layout_log>>

\* lines 1480-1494: the canvas is saved and returned
FlatlayFinish ==
  /\ flat_pc = "paste"
  /\ Len(canvas) = Min(Len(all_items), Len(item_positions))
  /\ flat_pc' = "done"
  /\ UNCHANGED <<pipeVars, genVars, all_items, item_positions, canvas, rng,
                 layout_log>>

\* the ranking call timing out
TimeoutResponses == {r \in Responses : r.error = "timeout"}

\* a whole recommendation run with one requested outfit on wardrobes of
\* dresses that differ in occasion and season, the ranking call failing
InitFilter == InitRecommend(FilterWardrobes, {"formal", "casual"}, {"winter"})
NextFilter ==
  \/ FilterItems
  \/ GenerateCandidates
  \/ Analyze(TimeoutResponses)
  \/ BeginRender
  \/ Submit
  \/ \E p \in DOMAIN task : TaskStart(p)
  \/ \E p \in DOMAIN task : ProcessSingleOutfit(p)
  \/ \E p \in DOMAIN task : Collect(p)
SpecFilter == InitFilter /\ [][NextFilter]_vars

\* the filter and the candidate generator on wardrobes of all-purpose items
\* of every category
InitGenerator == InitRecommend(GeneratorWardrobes, Occasions, {"fall", "winter", "summer"})
NextGenerator == FilterItems \/ GenerateCandidates
SpecGenerator == InitGenerator /\ [][NextGenerator]_vars

\* generate_outfit_flatlay_image on outfits of 0..MaxItems items
NextFlatlay == FlatlayBegin \/ PasteItem \/ FlatlayFinish
SpecFlatlay == InitFlatlay /\ [][NextFlatlay]_vars

\* the calls of generate_outfit_recommendations with an occasion, a season
\* and a number of outfits: by keyword as the view passes them (lines
\* 545-585 of views.py, there with a user as well), or as the three
\* positional arguments (line 855, save_composite.py line 20)
RunCalls ==
  [style : {"keyword", "positional"}, occasion : Occasions, season : Seasons,
   max_outfits : 1 .. MaxN]

\* wardrobes of dresses for every occasion, all-season or summer only
RunWardrobes ==
  SeqsUpTo({AllPurpose("dress"),
            [category |-> "dress", occasion |-> "all", season |-> "summer"]},
           MaxCand)

\* a call of generate_outfit_recommendations about to run its body
InitRun ==
  /\ pc = "start"
  /\ call \in RunCalls
  /\ user = ParameterValue(call, "user")
  /\ occasion = ParameterValue(call, "occasion")
  /\ season = ParameterValue(call, "season")
  /\ max_outfits = ParameterValue(call, "max_outfits")
  /\ configured = 0
  /\ wardrobe \in RunWardrobes
  /\ filtered_items = <<>>
  /\ candidates = <<>>
  /\ heap = <<>>
  /\ outfits = <<>>
  /\ RenderIdle
  /\ FlatIdle

\* the whole of generate_outfit_recommendations
NextRun ==
  \/ FilterItems
  \/ GenerateCandidates
  \/ Analyze(NumberedResponses)
  \/ BeginRender
  \/ Submit
  \/ \E p \in DOMAIN task : TaskStart(p)
  \/ \E p \in DOMAIN task : ProcessSingleOutfit(p)
  \/ \E p \in DOMAIN task : Collect(p)
SpecRun == InitRun /\ [][NextRun]_vars

\* the item lists of the repeated positions calls: each item with or without
\* an image
LayoutItemLists == SeqsUpTo({"processed", "none"}, MaxItems)

\* _calculate_flatlay_positions about to be called on some item list, the
\* random module in any state
InitLayout ==
  /\ pc = "none"
  /\ occasion \in Occasions
  /\ season \in Seasons
  /\ max_outfits = 1
  /\ configured = 0
  /\ wardrobe = <<>>
  /\ filtered_items = <<>>
  /\ candidates = <<>>
  /\ heap = <<>>
  /\ outfits = <<>>
  /\ RenderIdle
  /\ KeywordCall
  /\ flat_pc = "layout"
  /\ all_items \in LayoutItemLists
  /\ item_positions = <<>>
  /\ canvas = <<>>
  /\ rng \in RngStates
  /\ layout_log = <<>>

\* one call of _calculate_flatlay_positions(all_items, 400, 300)
CalculatePositions ==
  /\ flat_pc = "layout"
  /\ Len(layout_log) < MaxCalls
  /\ item_positions' = flatlay_positions(all_items, FlatlayWidth, FlatlayHeight)
  /\ rng' = RngAfterPositions(Len(all_items), rng)
  /\ layout_log' = Append(layout_log,
       [count |-> Len(all_items), positions |-> item_positions'])
  /\ flat_pc' = "between"
  /\ UNCHANGED <<pipeVars, genVars, all_items, canvas>>

\* what happens between two calls: other code uses the random module, and
\* the next call is for any item list
OtherCalls ==
  /\ flat_pc = "between"
  /\ Len(layout_log) < MaxCalls
  /\ all_items' \in LayoutItemLists
  /\ rng' \in RngStates \cup {rng}
  /\ flat_pc' = "layout"
  /\ UNCHANGED <<pipeVars, genVars, item_positions, canvas, layout_log>>

NextLayout == CalculatePositions \/ OtherCalls
SpecLayout == InitLayout /\ [][NextLayout]_vars

\* =================================================================== claims
Ranked == pc = "render"            \* _analyze_all_outfits_with_ai has just returned
Returned == pc = "returned"        \* _process_outfits_concurrently has returned
AiOutfits == batch_analysis.outfits
NumCandidates == Len(outfits)
PositionOf(i) == heap[AiOutfits[i]].ranking_position
ValidId(id) == id >= 0 /\ id < NumCandidates
ValidEntries == {k \in DOMAIN response.outfit_rankings :
                   ValidId(response.outfit_rankings[k].outfit_id)}
Present(v) == v # Null /\ v # Absent
Result(p) == heap[processed_outfits[outfit_data[p].index + 1]]

\* ---- C1
\* C1: the list returned by _process_outfits_concurrently has the length of
\* the input list and its position i holds the dictionary that was input
\* outfit i, with the three image entries attached, whatever the order in
\* which the tasks completed; no position is left None.
C1_OrderPreserved ==
  Returned =>
    /\ Len(processed_outfits) = Len(AiOutfits)
    /\ \A i \in DOMAIN AiOutfits :
         /\ processed_outfits[i] # 0
         /\ processed_outfits[i] = AiOutfits[i]
         /\ RenderKeys \subseteq heap[processed_outfits[i]].keys

\* the second task was collected, after a failed render, while the first
\* is still being processed
C1_Witness ==
  /\ pc = "collect"
  /\ Len(outfit_data) = 2
  /\ 2 \in collected
  /\ task[2].flat = "fail"
  /\ task[1].stage = "started"
  /\ processed_outfits[2] = AiOutfits[2]
  /\ processed_outfits[1] = 0

\* ---- C2
\* C2: once the batch has returned, an outfit whose mannequin call raised
\* or reported failure has its flat-lay present and its mannequin null, and
\* every outfit whose own two stages succeeded has both present.
C2_FailureIsolation ==
  Returned =>
    \A p \in Tasks :
      /\ task[p].man \in {"raise", "fail"} =>
           /\ Present(Result(p).flatlay_image_data)
           /\ Result(p).mannequin_image_data = Null
      /\ (task[p].flat = "ok" /\ task[p].man = "ok") =>
           /\ Present(Result(p).flatlay_image_data)
           /\ Present(Result(p).mannequin_image_data)

\* a returned batch of two in which the first mannequin call raised and the
\* second outfit rendered fully
C2_Witness ==
  /\ Returned
  /\ Len(outfit_data) = 2
  /\ task[1].man = "raise"
  /\ task[2].man = "ok"
  /\ Result(1).flatlay_image_data = FlatlayData
  /\ Result(2).mannequin_image_data = MannequinData

\* every outfit_id of the response references a candidate
AllIdsValid == ValidEntries = DOMAIN response.outfit_rankings

\* ---- C3
\* C3: the list returned by the analyzer is never longer than
\* min(max_outfits, number of candidates).  Stated here for the responses
\* whose outfit_ids all reference candidates, where the claim already fails:
\* a response may name the same candidate more than once.
C3_LengthAtMostMin ==
  (Ranked /\ AllIdsValid) => Len(AiOutfits) <= Min(max_outfits, NumCandidates)

\* ---- C4
\* C4: when the ranking call fails, the analyzer returns (it does not
\* raise) exactly min(max_outfits, number of candidates) outfits, each with
\* a confidence in [0, 1], style_tags = [occasion, season] and the error
\* text in style_notes.
C4_FallbackOnFailure ==
  (Ranked /\ ~response.ok) =>
    /\ batch_analysis.path = "fallback"
    /\ Len(AiOutfits) = Min(max_outfits, NumCandidates)
    /\ \A i \in DOMAIN AiOutfits :
         LET d == heap[AiOutfits[i]]
         IN /\ d.confidence_score >= 0 /\ d.confidence_score <= 100
            /\ d.style_tags = <<occasion, season>>
            /\ d.style_notes = <<"Error during analysis", response.error>>
            /\ AnalysisKeys \subseteq d.keys

\* the call timed out with more candidates than requested outfits
C4_Witness ==
  /\ Ranked
  /\ response.error = "timeout"
  /\ NumCandidates = 2
  /\ max_outfits = 1
  /\ Len(AiOutfits) = 1

\* ---- C5
\* C5: with a parsed response, entries whose outfit_id is outside
\* 0..#candidates-1 contribute nothing and are not fatal: the fallback is not
\* taken and the output is made of the valid entries only, each carrying the
\* model's annotations.
C5_InvalidIdsDropped ==
  (Ranked /\ response.ok) =>
    /\ batch_analysis.path = "ranked"
    /\ Len(AiOutfits) = Min(max_outfits, Cardinality(ValidEntries))
    /\ \A i \in DOMAIN AiOutfits :
         heap[AiOutfits[i]].style_notes = <<"model_notes">>

\* ---- C6
\* C6: the output is sorted ascending by ranking_position; on the ranked
\* path no validly-indexed entry with a position strictly better than the
\* worst returned one was left out (the slice follows the sort); on the
\* fallback path the outfits are the first candidates, in input order, with
\* positions 1..k.
C6_SortedThenTruncated ==
  Ranked =>
    /\ \A i, j \in DOMAIN AiOutfits : i < j => PositionOf(i) <= PositionOf(j)
    /\ batch_analysis.path = "ranked" =>
         \A k \in ValidEntries :
           LET v == response.outfit_rankings[k].ranking_position
           IN (\E i \in DOMAIN AiOutfits : v < PositionOf(i)) =>
                Cardinality({i \in DOMAIN AiOutfits : PositionOf(i) = v})
                  >= Cardinality({m \in ValidEntries :
                        response.outfit_rankings[m].ranking_position = v})
    /\ batch_analysis.path = "fallback" =>
         \A i \in DOMAIN AiOutfits : AiOutfits[i] = outfits[i] /\ PositionOf(i) = i

\* the model listed the worse outfit first and only one outfit was asked for
C6_Witness ==
  /\ Ranked
  /\ response.ok
  /\ Len(response.outfit_rankings) = 2
  /\ response.outfit_rankings[1].outfit_id = 0
  /\ response.outfit_rankings[1].ranking_position = 2
  /\ response.outfit_rankings[2].outfit_id = 1
  /\ response.outfit_rankings[2].ranking_position = 1
  /\ max_outfits = 1
  /\ Len(AiOutfits) = 1
  /\ heap[AiOutfits[1]].cand = 2

\* no outfit_id occurs twice in the response
IdsDistinct ==
  \A k, m \in DOMAIN response.outfit_rankings :
    k # m => response.outfit_rankings[k].outfit_id # response.outfit_rankings[m].outfit_id

\* ---- C7
\* C7: no two outfits of the analyzer's output carry the same
\* ranking_position.  Stated here for the responses whose outfit_ids
\* reference candidates and are pairwise distinct, where the claim already
\* fails: the positions of the response are copied unchecked.
C7_NoDuplicatePositions ==
  (Ranked /\ AllIdsValid /\ IdsDistinct) =>
    \A i, j \in DOMAIN AiOutfits : i # j => PositionOf(i) # PositionOf(j)

\* ---- C8
\* C8: the tasks' indices are pairwise distinct, each result slot is written
\* at most once (exactly once when the coordinator returns) and only by the
\* coordinator's collecting loop, and no dictionary is written by more than
\* one task.
C8_NoSharedWrites ==
  /\ \A p, q \in Tasks : p # q => outfit_data[p].index # outfit_data[q].index
  /\ \A i \in DOMAIN slot_writes :
       /\ Len(slot_writes[i]) <= 1
       /\ \A w \in DOMAIN slot_writes[i] : slot_writes[i][w] = "coordinator"
       /\ Returned => Len(slot_writes[i]) = 1
  /\ \A r \in DOMAIN dict_writers : Cardinality(dict_writers[r]) <= 1

\* the response named the same candidate twice and both renders have run
C8_Witness ==
  /\ Returned
  /\ Len(outfit_data) = 2
  /\ heap[AiOutfits[1]].cand = heap[AiOutfits[2]].cand
  /\ dict_writers[AiOutfits[1]] = {1}
  /\ dict_writers[AiOutfits[2]] = {2}

\* ---- C9
\* C9: at every moment the number of render tasks being executed is at most
\* min(number of outfits, cap), cap being the configured value or 5.
C9_BoundedWorkers ==
  NumRunning <= Min(Len(outfit_data),
                    IF configured = 0 THEN DefaultWorkers ELSE configured)

\* cap 1, two outfits: one is running while the other waits in the queue
C9_Witness ==
  /\ configured = 1
  /\ Len(outfit_data) = 2
  /\ NumRunning = 1
  /\ work_queue = <<2>>
  /\ pc = "collect"

\* ---- C10
RenderFailed(p) ==
  task[p].flat \in {"fail", "init_error"} \/ task[p].man \in {"fail", "raise"}
\* an entry besides the candidate's, the analysis's and the three image ones
HasErrorEntry(d) == d.keys \ (AnalysisKeys \cup RenderKeys) # {}

ExpectedImages(t) ==
  IF t.flat = "ok"
  THEN IF t.man = "ok"
       THEN <<FlatlayData, MannequinData, MannequinAnalysis>>
       ELSE <<FlatlayData, Null, Null>>
  ELSE <<Null, Null, Null>>

Compositable(p) == candidates[heap[TaskOutfit(p)].cand] # <<>>
\* the mannequin stage failed: the provider client could not be constructed,
\* or the call reported failure or raised
MannequinStageFailed(p) ==
  task[p].flat = "init_error" \/ task[p].man \in {"fail", "raise"}

\* C11: for an outfit whose items can be composited (and whose flat-lay
\* stage did not itself fail), any failure of the mannequin stage, the
\* construction of the provider client included, leaves flatlay_image_data
\* present and only the mannequin entries null.
C11_FlatlayKeptOnMannequinFailure ==
  Returned =>
    \A p \in Tasks :
      (Compositable(p) /\ task[p].flat # "fail" /\ MannequinStageFailed(p)) =>
        /\ Present(Result(p).flatlay_image_data)
        /\ Result(p).mannequin_image_data = Null
        /\ Result(p).mannequin_analysis = Null

\* ---- C12
\* the analyzer took its except branch because chain.invoke failed
ProviderFailed ==
  /\ batch_analysis.path = "fallback"
  /\ batch_analysis.overall_analysis[2] \in ProviderErrors

\* C12: with a non-empty item pool generate_outfit_recommendations always
\* returns success=True, never the except result of lines 844-849; when the
\* ranking call failed, the returned outfits are the first
\* min(max_outfits, #candidates) candidates with the fallback analysis, each
\* of them rendered.
C12_RankingFailureNotPropagated ==
  Returned =>
    /\ result_data.success
    /\ ProviderFailed =>
         /\ Len(result_data.outfits) = Min(max_outfits, NumCandidates)
         /\ \A i \in DOMAIN result_data.outfits :
              LET d == heap[result_data.outfits[i]]
              IN /\ result_data.outfits[i] = outfits[i]
                 /\ d.confidence_score = FallbackConfidence
                 /\ d.ranking_position = i
                 /\ AnalysisKeys \cup RenderKeys \subseteq d.keys

\* the ranking call timed out and both fallback outfits were rendered
C12_Witness ==
  /\ Returned
  /\ ProviderFailed
  /\ batch_analysis.overall_analysis[2] = "timeout"
  /\ result_data.success
  /\ Len(result_data.outfits) = 2
  /\ heap[result_data.outfits[1]].mannequin_image_data = MannequinData
  /\ heap[result_data.outfits[2]].flatlay_image_data = FlatlayData

\* ---- C13
\* C13: with a non-empty item pool and max_outfits >= 1, a success=True
\* result holds at least one outfit, whatever the ranking model answered.
C13_SuccessHasOutfit ==
  (Returned /\ result_data.success) => Len(result_data.outfits) >= 1

\* ---- the candidate generator
Generated == pc = "analyze"        \* the outfits list of line 826 is complete
\* the items of the filtered pool that are of category cat
PoolOf(cat) == {i \in DOMAIN wardrobe :
                  /\ \E k \in DOMAIN filtered_items : filtered_items[k] = i
                  /\ wardrobe[i].category = cat}
\* first() of a non-empty bucket: its earliest item in queryset order
FirstIn(cat) == CHOOSE i \in PoolOf(cat) : \A j \in PoolOf(cat) : i <= j
ItemsOf(c) == {candidates[c][k] : k \in DOMAIN candidates[c]}
NoRepeat(c) == Len(candidates[c]) = Cardinality(ItemsOf(c))
CandidatesWith(S) == {c \in DOMAIN candidates : S \subseteq ItemsOf(c)}

\* ---- C14
\* C14: when the filtered pool has a top and a bottom, there are at least
\* #tops x #bottoms candidates and each (top, bottom) pair is in exactly one
\* candidate.
C14_CrossProduct ==
  (Generated /\ PoolOf("top") # {} /\ PoolOf("bottom") # {}) =>
    /\ Len(candidates) >= Cardinality(PoolOf("top")) * Cardinality(PoolOf("bottom"))
    /\ \A t \in PoolOf("top") : \A b \in PoolOf("bottom") :
         Cardinality(CandidatesWith({t, b})) = 1

\* two tops and two bottoms gave four candidates
C14_Witness ==
  /\ Generated
  /\ Cardinality(PoolOf("top")) = 2
  /\ Cardinality(PoolOf("bottom")) = 2
  /\ Len(candidates) = 4

\* ---- C15
\* the add-ons of the claim: the first shoe, the first accessory, and the
\* first outerwear item in fall and winter only
ExpectedAddOns ==
  (IF PoolOf("shoes") # {} THEN {FirstIn("shoes")} ELSE {})
  \cup (IF PoolOf("accessories") # {} THEN {FirstIn("accessories")} ELSE {})
  \cup (IF PoolOf("outerwear") # {} /\ season \in {"fall", "winter"}
        THEN {FirstIn("outerwear")} ELSE {})

\* C15: each dress is in exactly one candidate, made of exactly the dress
\* and the add-ons; each (top, bottom) candidate is made of exactly the pair
\* and the add-ons; one dress and one pair of shoes in winter give exactly
\* one candidate {dress, shoes}.
C15_DressAndAddOns ==
  Generated =>
    /\ \A d \in PoolOf("dress") :
         /\ Cardinality(CandidatesWith({d})) = 1
         /\ \A c \in CandidatesWith({d}) :
              ItemsOf(c) = {d} \cup ExpectedAddOns /\ NoRepeat(c)
    /\ \A t \in PoolOf("top") : \A b \in PoolOf("bottom") :
         \A c \in CandidatesWith({t, b}) :
           ItemsOf(c) = {t, b} \cup ExpectedAddOns /\ NoRepeat(c)
    /\ (wardrobe = <<AllPurpose("dress"), AllPurpose("shoes")>> /\ season = "winter") =>
         candidates = << <<1, 2>> >>

\* the scenario: one dress and one pair of shoes, winter
C15_Witness ==
  /\ Generated
  /\ wardrobe = <<AllPurpose("dress"), AllPurpose("shoes")>>
  /\ season = "winter"
  /\ Len(candidates) = 1
  /\ ItemsOf(1) = {1, 2}

\* ---- C16
\* C16: every candidate has at least one item, and a candidate with a dress
\* has neither a top nor a bottom.
C16_NonEmptyNoDressWithSeparates ==
  Generated =>
    \A c \in DOMAIN candidates :
      /\ candidates[c] # <<>>
      /\ (\E i \in ItemsOf(c) : wardrobe[i].category = "dress") =>
           \A i \in ItemsOf(c) : wardrobe[i].category \notin {"top", "bottom"}

\* a pool with a dress, a top and a bottom: one dress outfit, one pair
C16_Witness ==
  /\ Generated
  /\ PoolOf("dress") # {}
  /\ PoolOf("top") # {}
  /\ PoolOf("bottom") # {}
  /\ Len(candidates) = 2

\* ---- C17
\* the dress branch and the top+bottom branch produce nothing
NoCombination ==
  PoolOf("dress") = {} /\ (PoolOf("top") = {} \/ PoolOf("bottom") = {})

\* C17: when the two combination branches produce nothing, there is exactly
\* one candidate per pool item, in pool order: the item, the first shoe
\* unless the item is a shoe, the first accessory unless the item is an
\* accessory.  Otherwise there are only the candidates of the combination
\* branches, one per dress and one per (top, bottom) pair.
C17_SingleItemFallback ==
  Generated =>
    IF NoCombination
    THEN /\ Len(candidates) = Len(filtered_items)
         /\ \A k \in DOMAIN candidates :
              LET item == filtered_items[k]
              IN /\ candidates[k][1] = item
                 /\ NoRepeat(k)
                 /\ ItemsOf(k) =
                      {item}
                      \cup (IF PoolOf("shoes") # {} /\ wardrobe[item].category # "shoes"
                            THEN {FirstIn("shoes")} ELSE {})
                      \cup (IF PoolOf("accessories") # {}
                               /\ wardrobe[item].category # "accessories"
                            THEN {FirstIn("accessories")} ELSE {})
    ELSE /\ Len(candidates) = Cardinality(PoolOf("dress"))
              + Cardinality(PoolOf("top")) * Cardinality(PoolOf("bottom"))
         /\ \A c \in DOMAIN candidates :
              wardrobe[candidates[c][1]].category \in {"dress", "top"}

\* a top, a pair of shoes and an accessory, no bottom: three single-item
\* candidates
C17_Witness ==
  /\ Generated
  /\ wardrobe = <<AllPurpose("top"), AllPurpose("shoes"), AllPurpose("accessories")>>
  /\ candidates = << <<1, 2, 3>>, <<2, 3>>, <<3, 2>> >>

\* ---- the occasion/season filter
InSeason(i) == wardrobe[i].season \in {season, "all"}
\* the items matching the exact filter: the requested occasion or 'all'
ExactPool ==
  {i \in DOMAIN wardrobe : wardrobe[i].occasion \in {occasion, "all"} /\ InSeason(i)}
\* the items matching the widened filter
WidenedPool ==
  {i \in DOMAIN wardrobe :
     /\ wardrobe[i].occasion \in {occasion, "casual", "business", "all", ""}
     /\ InSeason(i)}
\* the pool the candidates are to be generated from
EffectivePool == IF Cardinality(ExactPool) < 3 THEN WidenedPool ELSE ExactPool
SetOf(seq) == {seq[k] : k \in DOMAIN seq}

\* ---- C18
\* C18: in a run whose wardrobe is empty or in which no item passes the
\* filter, no candidate is ever generated, no ranking request is made and no
\* render task is created, and the run returns success=False with one of the
\* two reasons; after that return nothing further happens (the run goes
\* from its start straight to the return).
C18_NoItemsFailure ==
  EffectivePool = {} =>
    /\ pc \in {"start", "returned"}
    /\ candidates = <<>> /\ outfits = <<>> /\ heap = <<>>
    /\ response = NoResponse /\ batch_analysis.path = "none"
    /\ outfit_data = <<>> /\ task = <<>> /\ submitted = 0
    /\ Returned =>
         /\ ~result_data.success
         /\ result_data.outfits = <<>>
         /\ result_data.error =
              IF wardrobe = <<>> THEN NoWardrobeItems ELSE NoSuitableItems

\* a wardrobe whose only item is for parties, a formal request
C18_Witness ==
  /\ Returned
  /\ Len(wardrobe) = 1
  /\ wardrobe[1].occasion = "party"
  /\ occasion = "formal"
  /\ result_data.error = NoSuitableItems
  /\ response = NoResponse

\* ---- C19
\* C19: once the filter has run, the pool is the widened pool when fewer
\* than 3 items match the exact filter and the exact pool otherwise, in
\* queryset order, and the candidates are generated from it; the widened
\* filter selects every item the exact filter selects and no item of
\* another season.
C19_WidenedWhenFewExact ==
  /\ pc # "start" =>
       /\ SetOf(filtered_items) = EffectivePool
       /\ \A k, m \in DOMAIN filtered_items :
            k < m => filtered_items[k] < filtered_items[m]
  /\ (Generated \/ Returned) =>
       \A c \in DOMAIN candidates : ItemsOf(c) \subseteq EffectivePool
  /\ Generated => Len(candidates) = Cardinality(EffectivePool)
  /\ SetOf(exact_matches(wardrobe, occasion, season))
       \subseteq SetOf(close_matches(wardrobe, occasion, season))
  /\ \A i \in SetOf(close_matches(wardrobe, occasion, season)) : InSeason(i)

\* two exact matches among four items: the pool is widened by the casual
\* item, and the party item and the summer item stay out
C19_Witness ==
  /\ Generated
  /\ occasion = "formal"
  /\ Len(wardrobe) = 4
  /\ Cardinality(ExactPool) = 1
  /\ wardrobe[2].occasion = "casual"
  /\ wardrobe[3].occasion = "party"
  /\ wardrobe[4].season = "summer"
  /\ filtered_items = <<1, 2>>
  /\ Len(candidates) = 2

\* ---- C20
\* a tile of the given corner and side lies within the canvas
InCanvas(x, y, size) ==
  /\ 0 <= x
  /\ 0 <= y
  /\ x + size <= FlatlayWidth
  /\ y + size <= FlatlayHeight

\* C20: for an outfit of n >= 1 items, _calculate_flatlay_positions returns
\* exactly n tuples, each within the 400x300 canvas, and every tile pasted
\* onto the canvas lies within it; the finished flat-lay holds one tile per
\* item.
C20_PositionsInCanvas ==
  /\ flat_pc \in {"paste", "done"} =>
       /\ Len(all_items) >= 1
       /\ Len(item_positions) = Len(all_items)
       /\ \A k \in DOMAIN item_positions :
            InCanvas(item_positions[k][1], item_positions[k][2], item_positions[k][3])
  /\ \A k \in DOMAIN canvas : InCanvas(canvas[k].x, canvas[k].y, canvas[k].size)
  /\ flat_pc = "done" => Len(canvas) = Len(all_items)

\* the scenario: five items, all five placed
C20_Witness ==
  /\ flat_pc = "done"
  /\ Len(all_items) = 5
  /\ Len(canvas) = 5
  /\ item_positions[1] = <<216, 166, 66>>
  /\ item_positions[5] = <<183, 133, 66>>

EmptyImage == ""
NullOrImage(v) == v = Null \/ (v # Absent /\ v # EmptyImage)

\* C22: once the render coordinator has returned, every outfit of the result
\* has a flatlay_image_data and a mannequin_image_data entry, and each of
\* them is null or a non-empty encoded image.
C22_ImageEntriesPresent ==
  Returned =>
    \A p \in Tasks :
      /\ {"flatlay_image_data", "mannequin_image_data"} \subseteq Result(p).keys
      /\ NullOrImage(Result(p).flatlay_image_data)
      /\ NullOrImage(Result(p).mannequin_image_data)

\* two outfits returned: the provider client could not be constructed for
\* the first, so the outer except wrote its entries; the second rendered
C22_Witness ==
  /\ Returned
  /\ Len(outfit_data) = 2
  /\ TaskOutfit(1) # TaskOutfit(2)
  /\ task[1].flat = "init_error"
  /\ Result(1).flatlay_image_data = Null
  /\ Result(1).mannequin_image_data = Null
  /\ task[2].man = "ok"
  /\ Result(2).flatlay_image_data = FlatlayData
  /\ Result(2).mannequin_image_data = MannequinData

\* ---- C23
\* the analyzer has been entered and has returned or raised
AnalyzerRan == batch_analysis.path # "none"

C24_ProviderCalledOnceAfterFlatlay ==
  \A p \in DOMAIN provider_calls :
    /\ Len(provider_calls[p]) <= 1
    /\ provider_calls[p] # <<>> =>
         /\ task[p].flat = "ok"
         /\ provider_calls[p][1] = FlatlayImage(TaskOutfit(p))
    /\ (task[p].stage = "finished" /\ task[p].flat # "ok") => provider_calls[p] = <<>>
    /\ (task[p].stage = "finished" /\ task[p].flat = "ok") => provider_calls[p] # <<>>

\* of two processed outfits the first's flat-lay failed and the provider was
\* not called for it; the second's succeeded and the provider got its bytes
C24_Witness ==
  /\ Len(outfit_data) = 2
  /\ TaskOutfit(1) # TaskOutfit(2)
  /\ task[1].stage = "finished"
  /\ task[1].flat = "fail"
  /\ provider_calls[1] = <<>>
  /\ task[2].stage = "finished"
  /\ provider_calls[2] = <<FlatlayImage(TaskOutfit(2))>>

\* ---- C25
\* the dictionary built for candidate c by _create_outfit_from_items
OriginalDict(c) == OutfitDicts(candidates, occasion, season)[c]

\* C25: when the analyzer has returned, by the ranked path or by the
\* fallback taken on a provider failure, every dictionary of the input
\* candidate list is as it was when the analyzer was called.
C25_CandidatesNotMutated ==
  (Ranked /\ (~response.ok \/ AllIdsValid)) =>
    \A c \in DOMAIN outfits : heap[outfits[c]] = OriginalDict(c)

\* ---- C26
\* C26: a success=True result of generate_outfit_recommendations (here one
\* that carries at least one outfit) has a composite_image_data entry.
C26_SuccessHasCompositeImage ==
  (Returned /\ result_data.success /\ result_data.outfits # <<>>) =>
    "composite_image_data" \in result_data.keys

\* ---- C27
Queued(p) == p \in DOMAIN task /\ task[p].stage = "queued"
Finished(p) == p \in DOMAIN task /\ task[p].stage = "finished"

\* C27: under the fairness of SpecLive _process_outfits_concurrently returns
\* for every number of outfits and every worker cap; when it has returned
\* every submitted task has finished and was collected; and every queued
\* task, those waiting for a free worker included, is eventually processed.
C27_TerminatesAfterAllTasks ==
  /\ <>Returned
  /\ [](Returned => \A p \in DOMAIN task : task[p].stage = "finished" /\ p \in collected)
  /\ \A p \in TaskIds : Queued(p) ~> Finished(p)

\* two outfits and a pool of one worker: the second outfit waits in the
\* queue while the only worker runs the first
C27_Witness ==
  /\ Len(outfit_data) = 2
  /\ max_workers = 1
  /\ num_threads = 1
  /\ task[1].stage = "started"
  /\ task[2].stage = "queued"

\* ---- C28
\* the items that suit the occasion and season the caller asked for
RequestedPool == filter_items(wardrobe, call.occasion, call.season)

\* C28: a call passing (occasion, season, max_outfits) positionally runs with
\* each parameter holding the argument meant for it, and when the wardrobe
\* has items for the requested occasion and season it returns a successful
\* result of at most the requested number of outfits.
C28_PositionalCallServed ==
  (Returned /\ call.style = "positional") =>
    /\ BindArguments(call.style).occasion = "occasion"
    /\ BindArguments(call.style).season = "season"
    /\ BindArguments(call.style).max_outfits = "max_outfits"
    /\ RequestedPool # <<>> =>
         /\ result_data.success
         /\ Len(result_data.outfits) <= call.max_outfits

\* ---- C29
\* C29: for 5 or more items no two items are given the same (x, y).
C29_ClusterPositionsDistinct ==
  (flat_pc # "start" /\ Len(item_positions) >= 5) =>
    \A i, j \in DOMAIN item_positions :
      i # j => <<item_positions[i][1], item_positions[i][2]>> #
               <<item_positions[j][1], item_positions[j][2]>>

\* ---- C30
\* C30: in every outfit the render coordinator returns, mannequin_image_data
\* is non-null only if flatlay_image_data is non-null, and
\* mannequin_analysis is non-null only if mannequin_image_data is non-null.
C30_EntriesImplyEarlierStage ==
  Returned =>
    \A p \in Tasks :
      /\ Present(Result(p).mannequin_image_data) => Present(Result(p).flatlay_image_data)
      /\ Present(Result(p).mannequin_analysis) => Present(Result(p).mannequin_image_data)

\* two outfits returned: the first with all three entries, the second with
\* its flat-lay only because the provider reported failure
C30_Witness ==
  /\ Returned
  /\ Len(outfit_data) = 2
  /\ TaskOutfit(1) # TaskOutfit(2)
  /\ Result(1).mannequin_analysis = MannequinAnalysis
  /\ Result(1).mannequin_image_data = MannequinData
  /\ Result(1).flatlay_image_data = FlatlayData
  /\ task[2].man = "fail"
  /\ Result(2).flatlay_image_data = FlatlayData
  /\ Result(2).mannequin_image_data = Null
  /\ Result(2).mannequin_analysis = Null

====
